---- MODULE Spec2Model ----
(***************************************************************************)
(* price-crawl: the bounded scheduler (CrawlerManager), the per-source     *)
(* crawl loop (createCrawler, in its three revisions) and the record store *)
(* (DataStore / RedisStore), modelled at the granularity of the event      *)
(* loop: one action per callback, timer or resumed await.                  *)
(***************************************************************************)
EXTENDS Integers, Sequences, FiniteSets, TLC

(* ---- bounds of the model ---- *)
NSources == 3            \* configured (category, region) pairs
MaxStarts == 2           \* startAll() calls that create crawlers
MaxBatch == 1            \* records one extraction stores
MaxFaults == 5           \* disturbances, scheduler, revision "counted"
MaxBaseFaults == 1       \* the same, when the revision in use is "base"
MaxAdaptiveFaults == 2   \* the same, when it is "adaptive"
MaxCycleFaults == 6      \* disturbances, single-source specification
Preloaded == 98          \* records a category holds when the process starts
MaxPushes == 2           \* push() calls on the store of one category
MaxStoreFaults == 2      \* failures of Redis and file operations
MaxHrefLen == 3          \* characters of a link given to generateRecordId
MaxCalls == 2            \* calls of generateRecordId
MaxReports == 2          \* calls of onDataStored for a source per startAll()
MaxCount == 2            \* records one extraction stores
MaxStartCalls == 3       \* start() calls on one crawler that enter the loop
MaxAttempts == 2         \* runWithRetry() calls of one loop
MaxGetCalls == 4         \* calls of getRedisStore for one category

(* ---- program constants ---- *)
MAX_CONCURRENT_CRAWLERS == 2
MAX_RETRIES == 3
RETRY_DELAY_BASE == 5000
DEFAULT_POLL_INTERVAL == 30000
NO_DATA_BACKOFF_MS == 300000
FAILURE_THRESHOLD == 2
MAX_RECORDS == 99

(* The three revisions of crawler-factory that the repository holds:       *)
(*   "base"     src/src/lib/crawler-factory.ts                             *)
(*   "counted"  src/unnamed/part_005, lines 1-271 (storedCountThisRun)     *)
(*   "adaptive" src/unnamed/part_005, lines 273-570 (preferredMethod)      *)
Revisions == {"base", "counted", "adaptive"}

Keys == 1..NSources
Inst == 1..(NSources * MaxStarts)
KeyOf(i) == ((i - 1) % NSources) + 1
InstOf(g, k) == (g - 1) * NSources + k

VARIABLES
    rev,             \* the revision of createCrawler in use
    sources,         \* CrawlerManager.sources, as the set of crawler keys
    isRunning,       \* CrawlerManager.isRunning
    jobQueue,        \* CrawlerManager.jobQueue
    activeCrawlers,  \* CrawlerManager.activeCrawlers
    crawlers,        \* CrawlerManager.crawlers, as the instances it maps to
    states,          \* CrawlerManager.states: key -> status
    totalRecords,    \* CrawlerManager.states: key -> totalRecords
    passed,          \* history: key -> the counts passed to onDataStored
    closure,         \* one crawler driven by its caller: isRunning, abortController
    loops,           \* that crawler's start() calls that entered the loop
    stores,          \* the module's stores map, for one category: the entry
    getCalls,        \* the calls of getRedisStore / getDataStore for it
    gen,             \* number of startAll() calls that created crawlers
    inst,            \* the closures of every createCrawler() call so far
    holders,         \* history: instances admitted and not reported since
    faults,          \* disturbances the environment may still produce
    trace,           \* whether inst[i].log is recorded (history only)
    hash,            \* the Redis hash of the category: its records
    file,            \* DataFile.records of the category's JSON file
    isAvailable,     \* RedisStore.isAvailable
    redisStatus,     \* RedisStore.redis.status: the state of the connection
    pushes,          \* the calls of RedisStore.push and where each one is
    writeQueue,      \* DataStore.writeQueue: the jobs chained, not yet run
    queueRejected,   \* DataStore.writeQueue is a rejected promise
    storeFaults,     \* failures the store's environment may still produce
    idCalls,         \* history: the calls of generateRecordId made so far
    jsonFallback,    \* RedisStore.jsonFallback is set (the DataStore exists)
    lastRead         \* history: what the last getAll / getByRegion returned

crawlerVars == <<rev, sources, isRunning, jobQueue, activeCrawlers, crawlers,
                 states, totalRecords, passed, gen, inst, holders, faults,
                 trace, idCalls, lastRead, closure, loops,
                 stores, getCalls>>
storeVars == <<hash, file, isAvailable, redisStatus, pushes, writeQueue,
               queueRejected, storeFaults, jsonFallback>>
vars == <<crawlerVars, storeVars>>

(* disturbances of one run of the scheduler specification; a restart of the
   manager counts for as many *)
FaultBudget ==
    CASE rev = "base" -> MaxBaseFaults
      [] rev = "counted" -> MaxFaults
      [] rev = "adaptive" -> MaxAdaptiveFaults
RestartCost == FaultBudget

RECURSIVE Pow2(_)
Pow2(n) == IF n = 0 THEN 1 ELSE 2 * Pow2(n - 1)

(* ------------------------------------------------------------------ *)
(* createCrawler: the closure state                                      *)
(* ------------------------------------------------------------------ *)
NoCrawler ==
    [pc |-> "none", retryCount |-> 0, isRunning |-> FALSE, aborted |-> FALSE,
     storedCountThisRun |-> 0, consecutivePlaywrightFailures |-> 0,
     preferredMethod |-> "playwright", abandoned |-> FALSE, log |-> <<>>]

createCrawler == [NoCrawler EXCEPT !.pc = "new"]

Ev(e, d) == [e |-> e, d |-> d]
Log(s, e, d) == IF trace THEN [s EXCEPT !.log = Append(@, Ev(e, d))] ELSE s

Res(s, reports) == [s |-> s, reports |-> reports]

POLL_INTERVAL_MS == DEFAULT_POLL_INTERVAL

(* the tail of start()'s loop body with a return in place of the sleep *)
endCycleReturn(s, status) ==
    Res(Log([s EXCEPT !.pc = "exited", !.retryCount = 0], status, 0),
        <<status>>)

(* the tail of start()'s loop body: report, then the poll sleep *)
endCycle(s, status) ==
    Res(Log(Log([s EXCEPT !.pc = "poll", !.retryCount = 0], status, 0),
            "poll", POLL_INTERVAL_MS),
        <<status>>)

(* runBrowserlessScrape is called: scrapeWithBrowserless reports 'scraping'
   before its first await *)
invokeFallback(s) ==
    Res(Log([s EXCEPT !.pc = "fallback"], "fallback", 0), <<"scraping">>)

(* runWithRetry(0) with no test of the preferred method *)
runWithRetryPrimary(s) ==
    LET s0 == [s EXCEPT !.retryCount = 0, !.log = <<>>,
                        !.storedCountThisRun = 0]
    IN Res(Log([s0 EXCEPT !.pc = "primary"], "primary", 0), <<>>)

(* runWithRetry(0), called from start()'s loop *)
runWithRetry(s) ==
    LET s0 == [s EXCEPT !.retryCount = 0, !.log = <<>>,
                        !.storedCountThisRun = 0]
    IN IF rev = "adaptive" /\ s.preferredMethod = "browserless"
       THEN invokeFallback(s0)
       ELSE Res(Log([s0 EXCEPT !.pc = "primary"], "primary", 0), <<>>)

(* the catch block with a retry delay that grows linearly, not by doubling *)
primaryFailedLinear(s) ==
    IF rev \in {"base", "counted"}
       /\ s.retryCount < MAX_RETRIES /\ s.storedCountThisRun = 0
    THEN Res(Log([s EXCEPT !.pc = "backoff"], "backoff",
                 RETRY_DELAY_BASE * (s.retryCount + 1)), <<>>)
    ELSE invokeFallback(s)

(* the catch block of runWithRetry: the primary attempt failed *)
primaryFailed(s) ==
    CASE rev = "base" ->
           IF s.retryCount < MAX_RETRIES
           THEN Res(Log([s EXCEPT !.pc = "backoff"], "backoff",
                        RETRY_DELAY_BASE * Pow2(s.retryCount)), <<>>)
           ELSE invokeFallback(s)
      [] rev = "counted" ->
           IF s.retryCount < MAX_RETRIES /\ s.storedCountThisRun = 0
           THEN Res(Log([s EXCEPT !.pc = "backoff"], "backoff",
                        RETRY_DELAY_BASE * Pow2(s.retryCount)), <<>>)
           ELSE invokeFallback(s)
      [] rev = "adaptive" ->
           LET n == s.consecutivePlaywrightFailures + 1
               s1 == [s EXCEPT !.consecutivePlaywrightFailures = n,
                               !.preferredMethod =
                                   IF n >= FAILURE_THRESHOLD
                                   THEN "browserless" ELSE @]
           IN invokeFallback(s1)

(* crawler.run() resolved; n records were stored by the request handler *)
primaryResolved(s) ==
    CASE rev = "base" -> endCycle(s, "sleeping")
      [] rev = "counted" ->
           IF s.storedCountThisRun = 0 THEN primaryFailed(s)
           ELSE endCycle(s, "sleeping")
      [] rev = "adaptive" ->
           IF s.storedCountThisRun > 0
           THEN endCycle([s EXCEPT !.consecutivePlaywrightFailures = 0],
                         "sleeping")
           ELSE primaryFailed(s)

(* the retry sleep is over: runWithRetry(retryCount + 1) *)
retry(s) ==
    Res([s EXCEPT !.pc = "primary", !.retryCount = @ + 1,
                 !.storedCountThisRun = 0], <<>>)

(* runBrowserlessScrape settled, with no catch in start(): a failure ends
   the loop unreported *)
fallbackSettledUncaught(s, out) ==
    LET s1 == Log(s, out, 0)
    IN IF out = "records" THEN endCycle(s1, "sleeping")
       ELSE Res([s1 EXCEPT !.pc = "exited"],
                IF out = "throws" THEN <<"error">> ELSE <<>>)

(* runBrowserlessScrape settled, a fallback that returned records counting
   as a success of the cycle: it clears the failure counter *)
fallbackSettledResets(s, out) ==
    LET pre == IF out = "throws" THEN <<"error">> ELSE <<>>
        s1 == Log(s, out, 0)
    IN IF out = "records"
       THEN endCycle([s1 EXCEPT !.consecutivePlaywrightFailures = 0],
                     "sleeping")
       ELSE LET r == endCycle(s1, "error") IN Res(r.s, pre \o r.reports)

(* runBrowserlessScrape settled.  out: "records", "zero", "throws" (the
   catch of scrapeWithBrowserless reported 'error'), "rejects" (a failure
   outside that try block: createBrowser, getRedisStore, store.push) *)
fallbackSettled(s, out) ==
    LET pre == IF out = "throws" THEN <<"error">> ELSE <<>>
        s1 == Log(s, out, 0)
        end(status) == LET r == endCycle(s1, status)
                       IN Res(r.s, pre \o r.reports)
    IN CASE out = "records" -> end("sleeping")
         [] out = "zero" /\ rev = "counted" ->
              Res(Log([s1 EXCEPT !.pc = "cooldown"], "cooldown",
                      NO_DATA_BACKOFF_MS), <<>>)
         [] OTHER -> end("error")

(* start(), on a crawler that is not running: up to the first await *)
start(s) ==
    runWithRetry([s EXCEPT !.isRunning = TRUE, !.aborted = FALSE]).s

(* stop() that aborts the sleep in progress and leaves isRunning alone *)
stopAbortOnly(s) ==
    [s EXCEPT !.aborted = IF s.pc # "new" THEN TRUE ELSE @]

(* stop(): isRunning = false; abortController?.abort().  A sleep whose abort
   listener is registered is settled by the abort; its continuation runs
   as a microtask (the pc values ending in "Aborted"). *)
stop(s) ==
    LET started == s.pc # "new"
        listening == ~s.aborted
        pc1 == CASE s.pc = "poll" /\ listening -> "pollAborted"
                 [] s.pc = "backoff" /\ listening /\ rev = "counted" ->
                        "backoffAborted"
                 [] s.pc = "cooldown" /\ listening -> "cooldownAborted"
                 [] OTHER -> s.pc
    IN [s EXCEPT !.isRunning = FALSE,
                 !.aborted = IF started THEN TRUE ELSE @,
                 !.pc = pc1]

(* ------------------------------------------------------------------ *)
(* CrawlerManager                                                       *)
(* ------------------------------------------------------------------ *)
Mgr ==
    [isRunning |-> isRunning, jobQueue |-> jobQueue,
     activeCrawlers |-> activeCrawlers, states |-> states,
     totalRecords |-> totalRecords,
     holders |-> holders, gen |-> gen, started |-> {}]

RECURSIVE processQueue(_)
processQueue(m) ==
    IF ~m.isRunning THEN m
    ELSE IF m.activeCrawlers < MAX_CONCURRENT_CRAWLERS /\ Len(m.jobQueue) > 0
         THEN LET i == InstOf(m.gen, Head(m.jobQueue))
              IN processQueue([m EXCEPT !.jobQueue = Tail(@),
                                        !.activeCrawlers = @ + 1,
                                        !.started = @ \cup {i},
                                        !.holders = @ \cup {i}])
         ELSE m

(* releaseSlot without the call of processQueue *)
releaseSlotOnly(m) ==
    IF m.activeCrawlers > 0
    THEN [m EXCEPT !.activeCrawlers = @ - 1]
    ELSE m

(* releaseSlot without the test that the counter is positive *)
releaseSlotUnguarded(m) == processQueue([m EXCEPT !.activeCrawlers = @ - 1])

releaseSlot(m) ==
    IF m.activeCrawlers > 0
    THEN processQueue([m EXCEPT !.activeCrawlers = @ - 1])
    ELSE m

updateState(m, key, status) ==
    IF key \in DOMAIN m.states
    THEN [m EXCEPT !.states[key] = status]
    ELSE m

(* the handler processQueue() attaches to start(): start() rejected *)
startFailed(m, i) == releaseSlot([m EXCEPT !.holders = @ \ {i}])

(* the onStatusChange callback startAll() gives to createCrawler *)
onStatusChange(m, i, status) ==
    LET m1 == updateState(m, KeyOf(i), status)
    IN IF status \in {"sleeping", "error"}
       THEN releaseSlot([m1 EXCEPT !.holders = @ \ {i}])
       ELSE m1

(* onDataStored with the count stored in place of the sum *)
onDataStoredLast(m, i, count) ==
    IF KeyOf(i) \in DOMAIN m.states
    THEN [m EXCEPT !.totalRecords[KeyOf(i)] = count]
    ELSE m

(* the onDataStored callback startAll() gives to createCrawler: updateState
   with totalRecords (and lastRun, a timestamp, left out) *)
onDataStored(m, i, count) ==
    IF KeyOf(i) \in DOMAIN m.states
    THEN [m EXCEPT !.totalRecords[KeyOf(i)] = @ + count]
    ELSE m

RECURSIVE report(_, _, _)
report(m, i, rs) ==
    IF rs = <<>> THEN m
    ELSE report(onStatusChange(m, i, Head(rs)), i, Tail(rs))

(* one step of crawler i: its new closure state and the status reports it
   made, in order; the crawlers processQueue started run up to their first
   await *)
Commit(i, r) ==
    LET m == report(Mgr, i, r.reports)
    IN /\ inst' = [j \in Inst |->
                     IF j = i THEN r.s
                     ELSE IF j \in m.started THEN start(inst[j])
                     ELSE inst[j]]
       /\ isRunning' = m.isRunning
       /\ jobQueue' = m.jobQueue
       /\ activeCrawlers' = m.activeCrawlers
       /\ states' = m.states
       /\ totalRecords' = m.totalRecords
       /\ holders' = m.holders
       /\ UNCHANGED <<rev, sources, crawlers, gen, trace, idCalls, lastRead,
                      passed, closure, loops,
                      stores, getCalls>>
       /\ UNCHANGED storeVars

(* The environment is bounded in the disturbances it produces: an
   extraction that fails counts for one, a restart of the manager for
   RestartCost; any other step leaves the count alone.  A negative count
   stands for an environment that is not bounded. *)
Fault == IF faults < 0 THEN UNCHANGED faults
         ELSE faults > 0 /\ faults' = faults - 1
NoFault == UNCHANGED faults

(* no promise continuation is pending: timers and I/O callbacks may run *)
Microtasks == {"pollAborted", "backoffAborted", "cooldownAborted"}
Idle == \A i \in Inst : inst[i].pc \notin Microtasks

RECURSIVE SeqOfSet(_)
SeqOfSet(S) ==
    IF S = {} THEN <<>>
    ELSE LET x == CHOOSE y \in S : \A z \in S : y <= z
         IN <<x>> \o SeqOfSet(S \ {x})

startAll ==
    /\ ~isRunning
    /\ gen < MaxStarts
    /\ IF gen = 0 THEN NoFault
       ELSE faults >= RestartCost /\ faults' = faults - RestartCost
    /\ LET g == gen + 1
           m == processQueue([Mgr EXCEPT
                    !.isRunning = TRUE,
                    !.gen = g,
                    !.states = [k \in sources |-> "idle"],
                    !.totalRecords = [k \in sources |-> 0],
                    !.jobQueue = SeqOfSet(sources)])
           made == {InstOf(g, k) : k \in sources}
       IN /\ inst' = [j \in Inst |->
                        IF j \in m.started THEN start(createCrawler)
                        ELSE IF j \in made THEN createCrawler
                        ELSE inst[j]]
          /\ crawlers' = made
          /\ gen' = g
          /\ isRunning' = TRUE
          /\ jobQueue' = m.jobQueue
          /\ activeCrawlers' = m.activeCrawlers
          /\ states' = m.states
          /\ totalRecords' = m.totalRecords
          /\ passed' = [k \in sources |-> <<>>]
          /\ holders' = m.holders
    /\ UNCHANGED <<rev, sources, trace, idCalls, lastRead, closure, loops,
                   stores, getCalls>>
    /\ UNCHANGED storeVars

stopAll ==
    /\ isRunning' = FALSE
    /\ jobQueue' = <<>>
    /\ inst' = [j \in Inst |-> IF j \in crawlers THEN stop(inst[j])
                               ELSE inst[j]]
    /\ crawlers' = {}
    /\ UNCHANGED <<rev, sources, activeCrawlers, states, gen, holders, faults,
                   trace, idCalls, lastRead, totalRecords, passed, closure,
                   loops, stores, getCalls>>
    /\ UNCHANGED storeVars

(* ------------------------------------------------------------------ *)
(* the events of one crawler                                            *)
(* ------------------------------------------------------------------ *)
(* The primary attempt: crawler.run() raced against the timeout.  What the
   crawler's handlers did during the run is reported when the race settles. *)

(* requestHandler stored n records and crawler.run() resolved.  In the
   "counted" revision the handler reads validRecords, which nothing
   defines: it throws before store.push and never gets here. *)
HandlerStored(i, n) ==
    /\ NoFault
    /\ Idle /\ inst[i].pc = "primary"
    /\ rev \in {"base", "adaptive"}
    /\ LET s == [inst[i] EXCEPT !.storedCountThisRun =
                                   IF rev = "base" THEN @ ELSE n]
           r == primaryResolved(s)
       IN Commit(i, Res(r.s, <<"scraping">> \o r.reports))

(* requestHandler returned without storing and crawler.run() resolved *)
HandlerZero(i) ==
    /\ Fault
    /\ Idle /\ inst[i].pc = "primary"
    /\ LET s == Log([inst[i] EXCEPT !.storedCountThisRun = 0],
                     "primaryZero", 0)
           r == primaryResolved(s)
       IN Commit(i, Res(r.s, <<"scraping">> \o r.reports))

(* the request failed for good: Crawlee invoked failedRequestHandler, and
   crawler.run() resolved *)
FailedRequest(i) ==
    /\ Fault
    /\ Idle /\ inst[i].pc = "primary"
    /\ LET s == [inst[i] EXCEPT !.storedCountThisRun = 0]
           r == primaryResolved(s)
       IN Commit(i, Res(r.s, <<"error">> \o r.reports))

(* crawler.run() rejected *)
RunRejected(i) ==
    /\ Fault
    /\ Idle /\ inst[i].pc = "primary"
    /\ Commit(i, primaryFailed(inst[i]))

(* the PLAYWRIGHT_TIMEOUT_MS timer won the race; the run stays in flight *)
PlaywrightTimeout(i) ==
    /\ Fault
    /\ Idle /\ inst[i].pc = "primary"
    /\ rev \in {"base", "counted"}
    /\ ~inst[i].abandoned
    /\ Commit(i, primaryFailed([inst[i] EXCEPT !.abandoned = TRUE]))

BackoffTimer(i) ==
    /\ NoFault
    /\ Idle /\ inst[i].pc = "backoff"
    /\ Commit(i, retry(inst[i]))

FallbackSettled(i, out) ==
    /\ IF out = "records" THEN NoFault ELSE Fault
    /\ Idle /\ inst[i].pc = "fallback"
    /\ Commit(i, fallbackSettled(inst[i], out))

CooldownTimer(i) ==
    /\ NoFault
    /\ Idle /\ inst[i].pc = "cooldown"
    /\ Commit(i, endCycle(inst[i], "sleeping"))

(* the poll sleep resolved by its timer: while (isRunning) *)
PollTimer(i) ==
    /\ NoFault
    /\ Idle /\ inst[i].pc = "poll"
    /\ IF inst[i].isRunning
       THEN Commit(i, runWithRetry(inst[i]))
       ELSE Commit(i, Res([inst[i] EXCEPT !.pc = "exited"], <<>>))

(* the continuation of a sleep that stop() aborted *)
AbortResumed(i) ==
    /\ NoFault
    /\ inst[i].pc \in Microtasks
    /\ CASE inst[i].pc = "pollAborted" ->
              Commit(i, Res([inst[i] EXCEPT !.pc = "exited"], <<>>))
         [] inst[i].pc = "backoffAborted" ->
              Commit(i, endCycle(inst[i], "error"))
         [] inst[i].pc = "cooldownAborted" ->
              Commit(i, endCycle(inst[i], "sleeping"))

(* a run the timeout abandoned ends: quietly, or after failedRequestHandler *)
AbandonedEnded(i, failed) ==
    /\ NoFault
    /\ Idle /\ inst[i].abandoned
    /\ Commit(i, Res([inst[i] EXCEPT !.abandoned = FALSE,
                                     !.storedCountThisRun =
                                         IF failed THEN 0 ELSE @],
                     IF failed THEN <<"error">> ELSE <<>>))

(* an extraction of crawler i stored count records (requestHandler, or
   runBrowserlessScrape) and calls config.onDataStored(count).  The handler
   of the "counted" revision throws before it stores. *)
DataStored(i, count) ==
    /\ NoFault
    /\ Idle
    /\ \/ (inst[i].pc = "primary" \/ inst[i].abandoned) /\ rev # "counted"
       \/ inst[i].pc = "fallback"
    /\ Len(passed[KeyOf(i)]) < MaxReports
    /\ LET m == onDataStored(Mgr, i, count)
       IN /\ states' = m.states
          /\ totalRecords' = m.totalRecords
    /\ passed' = [passed EXCEPT ![KeyOf(i)] = Append(@, count)]
    /\ UNCHANGED <<rev, sources, isRunning, jobQueue, activeCrawlers,
                   crawlers, gen, inst, holders, trace, idCalls, lastRead,
                   closure, loops,
                   stores, getCalls>>
    /\ UNCHANGED storeVars

Outcomes == {"records", "zero", "throws", "rejects"}

Next ==
    \/ startAll
    \/ stopAll
    \/ \E i \in Inst, n \in 1..MaxBatch : HandlerStored(i, n)
    \/ \E i \in Inst : HandlerZero(i)
    \/ \E i \in Inst : FailedRequest(i)
    \/ \E i \in Inst : RunRejected(i)
    \/ \E i \in Inst : PlaywrightTimeout(i)
    \/ \E i \in Inst : BackoffTimer(i)
    \/ \E i \in Inst, out \in Outcomes : FallbackSettled(i, out)
    \/ \E i \in Inst : CooldownTimer(i)
    \/ \E i \in Inst : PollTimer(i)
    \/ \E i \in Inst : AbortResumed(i)
    \/ \E i \in Inst, failed \in BOOLEAN : AbandonedEnded(i, failed)

(* an instance is named by the call that constructed it; NoStore is no
   instance: the map has no entry for the category *)
NoStore == 0
GetCalls == 1..MaxGetCalls

(* a call of getRedisStore (or getDataStore) that was not made yet *)
NoGetCall == [pc |-> "idle", store |-> NoStore, result |-> NoStore]

(* no call of getAll or getByRegion was made yet *)
NoRead ==
    [op |-> "none", from |-> "none", records |-> 0,
     metadata |-> [category |-> "", totalRecords |-> 0], marked |-> FALSE]

InitCommon ==
    /\ rev \in Revisions
    /\ isRunning = FALSE
    /\ jobQueue = <<>>
    /\ activeCrawlers = 0
    /\ crawlers = {}
    /\ states = <<>>
    /\ totalRecords = <<>>
    /\ passed = <<>>
    /\ closure = [isRunning |-> FALSE, abortController |-> 0, aborted |-> {}]
    /\ loops = <<>>
    /\ stores = NoStore
    /\ getCalls = [c \in GetCalls |-> NoGetCall]
    /\ gen = 0
    /\ inst = [i \in Inst |-> NoCrawler]
    /\ holders = {}
    /\ idCalls = <<>>
    /\ lastRead = NoRead

PushIds == 1..MaxPushes

(* a call of push that was not made yet *)
NoPush ==
    [pc |-> "idle", items |-> <<>>, toRemove |-> {}, out |-> "",
     failedOver |-> FALSE]

(* the store, before any call of push *)
InitStoreIdle ==
    /\ pushes = [p \in PushIds |-> NoPush]
    /\ writeQueue = <<>>
    /\ queueRejected = FALSE

(* the scheduler with every source configured *)
Init ==
    /\ InitCommon
    /\ sources = Keys
    /\ faults = FaultBudget
    /\ trace = FALSE
    /\ InitStoreIdle
    /\ hash = {} /\ file = <<>> /\ isAvailable = TRUE /\ storeFaults = 0
    /\ redisStatus = "ready" /\ jsonFallback = FALSE

Spec == Init /\ [][Next]_vars

(* one source, with the events of each cycle recorded *)
InitCycle ==
    /\ InitCommon
    /\ sources = {1}
    /\ faults = MaxCycleFaults
    /\ trace = TRUE
    /\ InitStoreIdle
    /\ hash = {} /\ file = <<>> /\ isAvailable = TRUE /\ storeFaults = 0
    /\ redisStatus = "ready" /\ jsonFallback = FALSE

SpecCycle == InitCycle /\ [][Next]_vars

(* ------------------------------------------------------------------ *)
(* one crawler whose start() and stop() are called in any order         *)
(* ------------------------------------------------------------------ *)
(* closure: isRunning; abortController, the number of AbortControllers
   made so far standing for the last one made (0: null); aborted, the
   controllers that stop() aborted.  A loop is where one start() call is:
   in runWithRetry ("attempt"), in the poll sleep ("poll") listening to
   signal, resumed by an abort ("aborted", its continuation pending), or
   returned ("exited"); stopped and attempts are history. *)
otherVars == <<rev, sources, isRunning, jobQueue, activeCrawlers, crawlers,
               states, totalRecords, passed, gen, inst, holders, faults,
               trace, idCalls, lastRead, stores, getCalls>>

(* while (isRunning): the next runWithRetry(), or the end of start() *)
whileIsRunning(loop) ==
    IF closure.isRunning
    THEN [loop EXCEPT !.pc = "attempt", !.attempts = @ + 1]
    ELSE [loop EXCEPT !.pc = "exited"]

(* start(), up to the first await of runWithRetry() *)
StartCall ==
    /\ IF closure.isRunning
       THEN UNCHANGED <<closure, loops>>
       ELSE /\ closure.abortController < MaxStartCalls
            /\ closure' = [closure EXCEPT !.isRunning = TRUE,
                                          !.abortController = @ + 1]
            /\ loops' = Append(loops, [pc |-> "attempt", signal |-> 0,
                                       stopped |-> FALSE, attempts |-> 1])
    /\ UNCHANGED otherVars
    /\ UNCHANGED storeVars

(* stop(): the sleeps that listen to the controller are resumed *)
StopCall ==
    /\ LET c == closure.abortController
           fires == c # 0 /\ c \notin closure.aborted
       IN /\ closure' = [closure EXCEPT
                            !.isRunning = FALSE,
                            !.aborted = IF c = 0 THEN @ ELSE @ \cup {c}]
          /\ loops' = [l \in DOMAIN loops |->
                          IF loops[l].pc = "exited" THEN loops[l]
                          ELSE [loops[l] EXCEPT
                                  !.stopped = TRUE,
                                  !.pc = IF @ = "poll" /\ fires
                                            /\ loops[l].signal = c
                                         THEN "aborted" ELSE @]]
    /\ UNCHANGED otherVars
    /\ UNCHANGED storeVars

NoneResumed == \A l \in DOMAIN loops : loops[l].pc # "aborted"

(* runWithRetry() settled: the status is reported and the poll sleep
   begins, listening to the signal of the controller there is now (a
   signal that is aborted already fires no event) *)
AttemptSettled(l) ==
    /\ NoneResumed
    /\ loops[l].pc = "attempt"
    /\ loops' = [loops EXCEPT ![l].pc = "poll",
                              ![l].signal =
                                  IF closure.abortController \in closure.aborted
                                  THEN 0 ELSE closure.abortController]
    /\ UNCHANGED <<closure, otherVars>>
    /\ UNCHANGED storeVars

(* the timer of the poll sleep fired *)
PollElapsed(l) ==
    /\ NoneResumed
    /\ loops[l].pc = "poll"
    /\ closure.isRunning => loops[l].attempts < MaxAttempts
    /\ loops' = [loops EXCEPT ![l] = whileIsRunning(@)]
    /\ UNCHANGED <<closure, otherVars>>
    /\ UNCHANGED storeVars

(* the continuation of a poll sleep that stop() aborted: the promise
   resolved and the loop tests isRunning ("base"), or it rejected and the
   loop breaks *)
SleepAborted(l) ==
    /\ loops[l].pc = "aborted"
    /\ rev = "base" /\ closure.isRunning => loops[l].attempts < MaxAttempts
    /\ loops' = [loops EXCEPT ![l] = IF rev = "base" THEN whileIsRunning(@)
                                     ELSE [@ EXCEPT !.pc = "exited"]]
    /\ UNCHANGED <<closure, otherVars>>
    /\ UNCHANGED storeVars

InitInstance ==
    /\ InitCommon
    /\ sources = {} /\ faults = 0 /\ trace = FALSE
    /\ InitStoreIdle
    /\ hash = {} /\ file = <<>> /\ isAvailable = TRUE /\ storeFaults = 0
    /\ redisStatus = "ready" /\ jsonFallback = FALSE

NextInstance ==
    \/ StartCall
    \/ StopCall
    \/ \E l \in DOMAIN loops : AttemptSettled(l)
    \/ \E l \in DOMAIN loops : PollElapsed(l)
    \/ \E l \in DOMAIN loops : SleepAborted(l)

SpecInstance == InitInstance /\ [][NextInstance]_vars

(* ------------------------------------------------------------------ *)
(* getRedisStore, getDataStore: the store of a category                 *)
(* ------------------------------------------------------------------ *)
restVars == <<rev, sources, isRunning, jobQueue, activeCrawlers, crawlers,
              states, totalRecords, passed, gen, inst, holders, faults,
              trace, idCalls, lastRead, closure, loops>>

(* getRedisStore(category), getDataStore(category), up to the first await:
   stores.get(category) when the map has the category, else new
   Store(category) and the call of init() *)
GetStore(c) ==
    /\ getCalls[c].pc = "idle"
    /\ \A d \in GetCalls : d < c => getCalls[d].pc # "idle"
    /\ IF stores # NoStore
       THEN getCalls' = [getCalls EXCEPT ![c].pc = "returned",
                                         ![c].result = stores]
       ELSE getCalls' = [getCalls EXCEPT ![c].pc = "init",
                                         ![c].store = c]
    /\ UNCHANGED stores
    /\ UNCHANGED restVars
    /\ UNCHANGED storeVars

(* init() of the store the call constructed settled: stores.set(category,
   store) and return stores.get(category); or init() rejected (the
   directory or the file cannot be written) and so does the call *)
InitSettled(c, ok) ==
    /\ getCalls[c].pc = "init"
    /\ IF ok
       THEN /\ stores' = getCalls[c].store
            /\ getCalls' = [getCalls EXCEPT ![c].pc = "returned",
                                            ![c].result = getCalls[c].store]
       ELSE /\ getCalls' = [getCalls EXCEPT ![c].pc = "threw"]
            /\ UNCHANGED stores
    /\ UNCHANGED restVars
    /\ UNCHANGED storeVars

InitGetStore ==
    /\ InitCommon
    /\ sources = {} /\ faults = 0 /\ trace = FALSE
    /\ InitStoreIdle
    /\ hash = {} /\ file = <<>> /\ isAvailable = TRUE /\ storeFaults = 0
    /\ redisStatus = "ready" /\ jsonFallback = FALSE

NextGetStore ==
    \/ \E c \in GetCalls : GetStore(c)
    \/ \E c \in GetCalls, ok \in BOOLEAN : InitSettled(c, ok)

SpecGetStore == InitGetStore /\ [][NextGetStore]_vars

(* two sources, with the counts their extractions report *)
InitTotals ==
    /\ InitCommon
    /\ sources = 1..2
    /\ faults = FaultBudget
    /\ trace = FALSE
    /\ InitStoreIdle
    /\ hash = {} /\ file = <<>> /\ isAvailable = TRUE /\ storeFaults = 0
    /\ redisStatus = "ready" /\ jsonFallback = FALSE

NextTotals ==
    \/ Next
    \/ \E i \in Inst, count \in 1..MaxCount : DataStored(i, count)

SpecTotals == InitTotals /\ [][NextTotals]_vars

(* the events of crawler i: its timers, and its extraction calls settling *)
Step(i) ==
    \/ \E n \in 1..MaxBatch : HandlerStored(i, n)
    \/ HandlerZero(i)
    \/ FailedRequest(i)
    \/ RunRejected(i)
    \/ PlaywrightTimeout(i)
    \/ BackoffTimer(i)
    \/ \E out \in Outcomes : FallbackSettled(i, out)
    \/ CooldownTimer(i)
    \/ PollTimer(i)
    \/ AbortResumed(i)
    \/ \E failed \in BOOLEAN : AbandonedEnded(i, failed)

(* the event loop runs: while a timer of some crawler is due or one of its
   extraction calls can settle, one such event happens *)
Fairness == WF_vars(\E i \in Inst : Step(i))

(* one source in an environment that is not bounded in its disturbances *)
InitLoop ==
    /\ InitCommon
    /\ sources = {1}
    /\ faults = -1
    /\ trace = FALSE
    /\ InitStoreIdle
    /\ hash = {} /\ file = <<>> /\ isAvailable = TRUE /\ storeFaults = 0
    /\ redisStatus = "ready" /\ jsonFallback = FALSE

SpecLoop == InitLoop /\ [][Next]_vars /\ Fairness

(* The scheduler over crawlers whose cycles can end without a disturbance:
   the revisions "base" and "adaptive" (a primary attempt of "counted"
   never stores, so each of its cycles uses up disturbances). *)
InitSched == Init /\ rev # "counted"

(* the events of those revisions: all but the no-data cooldown *)
NextSched ==
    \/ startAll
    \/ stopAll
    \/ \E i \in Inst, n \in 1..MaxBatch : HandlerStored(i, n)
    \/ \E i \in Inst : HandlerZero(i)
    \/ \E i \in Inst : FailedRequest(i)
    \/ \E i \in Inst : RunRejected(i)
    \/ \E i \in Inst : PlaywrightTimeout(i)
    \/ \E i \in Inst : BackoffTimer(i)
    \/ \E i \in Inst, out \in Outcomes : FallbackSettled(i, out)
    \/ \E i \in Inst : PollTimer(i)
    \/ \E i \in Inst : AbortResumed(i)
    \/ \E i \in Inst, failed \in BOOLEAN : AbandonedEnded(i, failed)

SpecSched == InitSched /\ [][NextSched]_vars /\ Fairness

(* ------------------------------------------------------------------ *)
(* the record store of one category: RedisStore over DataStore           *)
(* ------------------------------------------------------------------ *)
(* A record is its identifier, its name and its scrapedAt.  Names are
   numbers, ordered as localeCompare orders the names; the region is the
   same for all and left out. *)
Rec(id, name, ts) == [id |-> id, name |-> name, ts |-> ts]

(* `${name.replace(/\s+/g, '-').toLowerCase()}-${region}` *)
DerivedId(name) == <<"derived", name>>

(* the identifier a crawler gives a record of this name before it pushes *)
AssignedId(name) == <<"assigned", name>>

(* an item given to push: carrying an identifier (pre) or not *)
Item(name, pre, ts) == [name |-> name, pre |-> pre, ts |-> ts]

Ids(S) == {r.id : r \in S}
Range(f) == {f[k] : k \in DOMAIN f}

(* the items of a batch, in the order of their names *)
RECURSIVE ItemsOf(_, _, _)
ItemsOf(names, pre, ts) ==
    IF names = {} THEN <<>>
    ELSE LET n == CHOOSE x \in names : \A y \in names : x <= y
         IN <<Item(n, pre, ts)>> \o ItemsOf(names \ {n}, pre, ts)

(* Array.prototype.sort with a comparator is stable; it is modelled by SortSeq
   (a stable insertion sort) with the comparators below, where Less(a, b) says
   the comparator puts a before b *)

(* scrapedAt: a positive number stands for the ISO string of that instant;
   Missing for an absent or empty scrapedAt; Unparseable for a string that
   Date cannot parse *)
Missing == 0
Unparseable == -1

(* new Date(scrapedAt).getTime() is NaN for a string Date cannot parse *)
IsNaN(ts) == ts = Unparseable

(* scrapedAt ? new Date(scrapedAt).getTime() : 0, where it is a number *)
getTime(ts) == IF ts = Missing THEN 0 ELSE ts

(* dateB - dateA < 0; a comparator that returns NaN is taken to return 0 *)
Newer(a, b) == ~IsNaN(a.ts) /\ ~IsNaN(b.ts) /\ getTime(a.ts) > getTime(b.ts)
NameBefore(a, b) == a.name < b.name

(* DataStore.push, the loop over the items: { id, ...item } keeps the
   identifier the item carries, and the search is for the derived one *)
RECURSIVE FileMerge(_, _)
FileMerge(records, items) ==
    IF items = <<>> THEN records
    ELSE LET item == Head(items)
             id == DerivedId(item.name)
             record == Rec(IF item.pre THEN AssignedId(item.name) ELSE id,
                           item.name, item.ts)
             found == {k \in 1..Len(records) : records[k].id = id}
             existingIndex == CHOOSE k \in found : \A j \in found : k <= j
         IN FileMerge(IF found # {}
                      THEN [records EXCEPT ![existingIndex] = record]
                      ELSE Append(records, record),
                      Tail(items))

(* the job with the records sorted oldest first before the cut *)
FilePushOldest(records, items) ==
    LET merged == FileMerge(records, items)
        Older(a, b) == a.ts < b.ts
        old == SortSeq(merged, Older)
        kept == IF Len(old) > MAX_RECORDS
                THEN SubSeq(old, 1, MAX_RECORDS) ELSE old
    IN SortSeq(kept, NameBefore)

(* DataStore.push, the job on the write queue: merge, newest first, keep
   MAX_RECORDS, order by name *)
FilePush(records, items) ==
    LET merged == FileMerge(records, items)
        recent == SortSeq(merged, Newer)
        kept == IF Len(recent) > MAX_RECORDS
                THEN SubSeq(recent, 1, MAX_RECORDS) ELSE recent
    IN SortSeq(kept, NameBefore)

(* pushToRedis: the records built from the items *)
RedisRecords(items) ==
    {Rec(IF item.pre THEN AssignedId(item.name) ELSE DerivedId(item.name),
         item.name, item.ts) : item \in Range(items)}

(* the pipeline of HSETs on the hash *)
Hset(h, records) == {r \in h : r.id \notin Ids(records)} \cup records

MinOf(S) == CHOOSE x \in S : \A y \in S : x <= y

(* the record the sort of enforceRecordLimit puts first: the oldest; of the
   records of one timestamp, the one hgetall lists first, which is taken
   here to be the first by name, the carried identifier before the derived *)
Oldest(h) ==
    LET ts == MinOf({r.ts : r \in h})
        name == MinOf({r.name : r \in {x \in h : x.ts = ts}})
        both == {r \in h : r.ts = ts /\ r.name = name}
    IN IF \E r \in both : r.id = AssignedId(name)
       THEN CHOOSE r \in both : r.id = AssignedId(name)
       ELSE CHOOSE r \in both : TRUE

RECURSIVE OldestIds(_, _)
OldestIds(h, k) ==
    IF k <= 0 \/ h = {} THEN {}
    ELSE {Oldest(h).id} \cup OldestIds(h \ {Oldest(h)}, k - 1)

(* enforceRecordLimit: the identifiers to remove, parsed.slice(0,
   recordCount - MAX_RECORDS) of the records sorted oldest first *)
ToRemove(h) == OldestIds(h, Cardinality(h) - MAX_RECORDS)

Hdel(h, ids) == {r \in h : r.id \notin ids}

StoreFault == storeFaults > 0 /\ storeFaults' = storeFaults - 1
NoStoreFault == UNCHANGED storeFaults

(* RedisStore.push, after pushToRedis threw or with Redis unavailable: the
   JSON fallback is set up if it was not, and the job is chained on its
   write queue *)
fallBack(p, unavailable) ==
    /\ isAvailable' = IF unavailable THEN FALSE ELSE isAvailable
    /\ writeQueue' = Append(writeQueue, p)
    /\ pushes' = [pushes EXCEPT ![p].pc = "queued", ![p].failedOver = TRUE]
    /\ jsonFallback' = TRUE
    /\ UNCHANGED <<hash, file, redisStatus, queueRejected>>

(* the batches a scrape pushes: the record stored longest ago again, one
   new record, two new records *)
Batches == {{Preloaded}, {Preloaded + 1}, {Preloaded + 1, Preloaded + 2}}

(* store.push(items), up to its first await *)
Push(p, names, pre) ==
    /\ pushes[p].pc = "idle"
    /\ \A q \in PushIds : q < p => pushes[q].pc # "idle"
    /\ NoStoreFault
    /\ LET items == ItemsOf(names, pre, Preloaded + p)
       IN IF isAvailable
          THEN /\ pushes' = [pushes EXCEPT ![p].pc = "hset",
                                           ![p].items = items]
               /\ UNCHANGED <<hash, file, isAvailable, redisStatus,
                              writeQueue, queueRejected, jsonFallback>>
          ELSE /\ pushes' = [pushes EXCEPT ![p].pc = "queued",
                                           ![p].items = items]
               /\ writeQueue' = Append(writeQueue, p)
               /\ jsonFallback' = TRUE
               /\ UNCHANGED <<hash, file, isAvailable, redisStatus,
                              queueRejected>>
    /\ UNCHANGED crawlerVars

(* A command on the data connection settles.  It succeeds on a connection
   that is ready; it is rejected on one that ended, and on a ready one by a
   disturbance (a timeout, an error reply); while the connection is being
   re-established the command waits. *)
Settles(ok) ==
    IF ok THEN redisStatus = "ready" /\ NoStoreFault
    ELSE IF redisStatus = "end" THEN NoStoreFault
    ELSE redisStatus = "ready" /\ StoreFault

(* pipeline.exec() settled *)
PipelineExec(p, ok) ==
    /\ pushes[p].pc = "hset"
    /\ Settles(ok)
    /\ IF ok
       THEN /\ hash' = Hset(hash, RedisRecords(pushes[p].items))
            /\ pushes' = [pushes EXCEPT ![p].pc = "hgetall"]
            /\ UNCHANGED <<file, isAvailable, redisStatus, writeQueue,
                           queueRejected, jsonFallback>>
       ELSE fallBack(p, TRUE)
    /\ UNCHANGED crawlerVars

(* enforceRecordLimit: hgetall settled *)
Hgetall(p, ok) ==
    /\ pushes[p].pc = "hgetall"
    /\ Settles(ok)
    /\ IF ok
       THEN /\ pushes' = [pushes EXCEPT
                            ![p].toRemove = ToRemove(hash),
                            ![p].pc = IF Cardinality(hash) <= MAX_RECORDS
                                      THEN "publish" ELSE "hdel"]
            /\ UNCHANGED <<hash, file, isAvailable, redisStatus, writeQueue,
                           queueRejected, jsonFallback>>
       ELSE fallBack(p, TRUE)
    /\ UNCHANGED crawlerVars

(* enforceRecordLimit: hdel settled *)
HdelSettled(p, ok) ==
    /\ pushes[p].pc = "hdel"
    /\ Settles(ok)
    /\ IF ok
       THEN /\ hash' = Hdel(hash, pushes[p].toRemove)
            /\ pushes' = [pushes EXCEPT ![p].pc = "publish"]
            /\ UNCHANGED <<file, isAvailable, redisStatus, writeQueue,
                           queueRejected, jsonFallback>>
       ELSE fallBack(p, TRUE)
    /\ UNCHANGED crawlerVars

(* publisher.publish settled (the publisher is a connection of its own) *)
Publish(p, ok) ==
    /\ pushes[p].pc = "publish"
    /\ IF ok
       THEN /\ NoStoreFault
            /\ pushes' = [pushes EXCEPT ![p].pc = "resolved"]
            /\ UNCHANGED <<hash, file, isAvailable, redisStatus, writeQueue,
                           queueRejected, jsonFallback>>
       ELSE StoreFault /\ fallBack(p, TRUE)
    /\ UNCHANGED crawlerVars

FileOutcomes == {"ok", "readFails", "writeFails"}

(* the next job of the write queue.  readFile() answers an unreadable file
   with no records; a writeFile() that throws rejects the queue, and a job
   chained on a rejected queue never runs. *)
FileJob(out) ==
    /\ writeQueue # <<>>
    /\ LET p == Head(writeQueue)
       IN /\ writeQueue' = Tail(writeQueue)
          /\ IF queueRejected
             THEN /\ out = "ok" /\ NoStoreFault
                  /\ pushes' = [pushes EXCEPT ![p].pc = "rejected"]
                  /\ UNCHANGED <<file, queueRejected>>
             ELSE CASE out = "ok" ->
                         /\ NoStoreFault
                         /\ file' = FilePush(file, pushes[p].items)
                         /\ pushes' = [pushes EXCEPT ![p].pc = "resolved",
                                                     ![p].out = out]
                         /\ UNCHANGED queueRejected
                    [] out = "readFails" ->
                         /\ StoreFault
                         /\ file' = FilePush(<<>>, pushes[p].items)
                         /\ pushes' = [pushes EXCEPT ![p].pc = "resolved",
                                                     ![p].out = out]
                         /\ UNCHANGED queueRejected
                    [] out = "writeFails" ->
                         /\ StoreFault
                         /\ queueRejected' = TRUE
                         /\ pushes' = [pushes EXCEPT ![p].pc = "rejected",
                                                     ![p].out = out]
                         /\ UNCHANGED file
    /\ UNCHANGED <<hash, isAvailable, redisStatus, jsonFallback>>
    /\ UNCHANGED crawlerVars

(* the 'connect' event: the client re-established the connection *)
RedisConnect ==
    /\ redisStatus = "reconnecting"
    /\ redisStatus' = "ready"
    /\ isAvailable' = TRUE
    /\ NoStoreFault
    /\ UNCHANGED <<hash, file, pushes, writeQueue, queueRejected,
                   jsonFallback>>
    /\ UNCHANGED crawlerVars

(* the 'close' event: the connection is lost and the client retries *)
RedisClose ==
    /\ redisStatus = "ready"
    /\ redisStatus' = "reconnecting"
    /\ isAvailable' = FALSE
    /\ StoreFault
    /\ UNCHANGED <<hash, file, pushes, writeQueue, queueRejected,
                   jsonFallback>>
    /\ UNCHANGED crawlerVars

(* retryStrategy returned null: the client gives up *)
RedisEnd ==
    /\ redisStatus = "reconnecting"
    /\ redisStatus' = "end"
    /\ StoreFault
    /\ UNCHANGED <<hash, file, isAvailable, pushes, writeQueue,
                   queueRejected, jsonFallback>>
    /\ UNCHANGED crawlerVars

(* checkHealth(), on the health check timer.  ok: the ping, or the new
   connection, succeeds. *)
checkHealth(ok) ==
    IF isAvailable
    THEN IF ok THEN UNCHANGED <<isAvailable, redisStatus>>
         ELSE isAvailable' = FALSE /\ UNCHANGED redisStatus
    ELSE IF redisStatus = "end"
         THEN IF ok THEN isAvailable' = TRUE /\ redisStatus' = "ready"
              ELSE redisStatus' = "reconnecting" /\ UNCHANGED isAvailable
         ELSE UNCHANGED <<isAvailable, redisStatus>>

CheckHealth(ok) ==
    /\ IF ok THEN NoStoreFault ELSE StoreFault
    /\ ~ok => isAvailable \/ redisStatus = "end"
    /\ checkHealth(ok)
    /\ UNCHANGED <<hash, file, pushes, writeQueue, queueRejected,
                   jsonFallback>>
    /\ UNCHANGED crawlerVars

NextStore ==
    \/ \E p \in PushIds, names \in Batches, pre \in BOOLEAN :
           Push(p, names, pre)
    \/ \E p \in PushIds, ok \in BOOLEAN : PipelineExec(p, ok)
    \/ \E p \in PushIds, ok \in BOOLEAN : Hgetall(p, ok)
    \/ \E p \in PushIds, ok \in BOOLEAN : HdelSettled(p, ok)
    \/ \E p \in PushIds, ok \in BOOLEAN : Publish(p, ok)
    \/ \E out \in FileOutcomes : FileJob(out)
    \/ RedisConnect
    \/ RedisClose
    \/ RedisEnd
    \/ \E ok \in BOOLEAN : CheckHealth(ok)

(* the records an earlier run of the process left in a backend, the first
   by name captured last *)
PreloadedRecords ==
    [n \in 1..Preloaded |-> Rec(AssignedId(n), n, Preloaded + 1 - n)]

(* those records with the scrapedAt of the first by name as given *)
Stamped(stamp) == [PreloadedRecords EXCEPT ![1].ts = stamp]

(* the scrapedAt the first record is found with: valid, missing, and in the
   JSON file, which anything may have written, also unparseable (the order
   in which HGETALL lists a hash is not specified, so the place the sort of
   enforceRecordLimit gives a record that compares equal to every other is
   not determined; the hash holds no such record) *)
Stamps == {Preloaded, Missing, Unparseable}

(* the store of one category as the process finds it: empty, or holding
   what earlier runs stored; Redis reachable or not *)
InitStore ==
    /\ InitCommon
    /\ rev = "base" /\ sources = {} /\ faults = 0 /\ trace = FALSE
    /\ InitStoreIdle
    /\ \E full \in BOOLEAN, stamp \in Stamps :
          /\ hash = IF full
                    THEN Range(Stamped(IF IsNaN(stamp) THEN Preloaded
                                       ELSE stamp))
                    ELSE {}
          /\ file = IF full THEN Stamped(stamp) ELSE <<>>
    /\ \/ isAvailable = TRUE /\ redisStatus = "ready"
       \/ isAvailable = FALSE /\ redisStatus \in {"reconnecting", "end"}
    /\ jsonFallback = ~isAvailable
    /\ storeFaults = MaxStoreFaults

SpecStore == InitStore /\ [][NextStore]_vars

(* the health check timer keeps firing, and a client that is retrying
   connects when nothing disturbs it *)
FairProbe ==
    /\ WF_vars(\E ok \in BOOLEAN : CheckHealth(ok))
    /\ WF_vars(RedisConnect)

SpecStoreProbe == InitStore /\ [][NextStore]_vars /\ FairProbe

(* RedisStore.getAll: the records it returns.  readOk: the read of the hash
   succeeds *)
getAll(readOk) == IF isAvailable /\ readOk THEN hash ELSE Range(file)

(* ------------------------------------------------------------------ *)
(* reading the store: getAll, getByRegion                                *)
(* ------------------------------------------------------------------ *)
Category == "commodities"

(* what a read returns or throws; of the records, their number *)
Returned(n) ==
    [threw |-> FALSE, records |-> n,
     metadata |-> [category |-> Category, totalRecords |-> n]]
Thrown ==
    [threw |-> TRUE, records |-> 0,
     metadata |-> [category |-> "", totalRecords |-> 0]]

(* readFile with no catch around fs.readFile and JSON.parse *)
readFileUncaught(fileOut) ==
    IF fileOut = "unreadable" THEN Thrown ELSE Returned(Len(file))

(* DataStore.readFile: the content of the file (its metadata are those the
   last write computed), or an empty DataFile when the file is missing or
   cannot be read or parsed *)
readFile(fileOut) ==
    IF fileOut = "unreadable" THEN Returned(0) ELSE Returned(Len(file))

(* getAllFromRedis: the records of the hash, totalRecords their number *)
getAllFromRedis == Returned(Cardinality(hash))

(* Object.values(allRecords): the records of the hash in the order HGETALL
   lists them, which is not specified and is taken here to be the reverse
   of the order of their names *)
RECURSIVE Listed(_, _)
Listed(h, n) ==
    IF n = 0 THEN <<>>
    ELSE LET named == {r \in h : r.name = n}
             carried == {r \in named : r.id = AssignedId(n)}
         IN (IF carried # {} THEN <<CHOOSE r \in carried : TRUE>> ELSE <<>>)
            \o (IF named \ carried # {}
                THEN <<CHOOSE r \in named \ carried : TRUE>> ELSE <<>>)
            \o Listed(h, n - 1)

Values(h) ==
    IF h = {} THEN <<>>
    ELSE Listed(h, CHOOSE n \in {r.name : r \in h} :
                      \A r \in h : r.name <= n)

(* getAllFromRedis without the sort: the records as HGETALL lists them *)
recordsAsListed(h) == Values(h)

(* getAllFromRedis, its records: those of the hash, sorted by name *)
recordsFromRedis(h) == SortSeq(Values(h), NameBefore)

(* DataStore.getAll, its records: those of the file as the last push wrote
   them, none when the file cannot be read *)
recordsFromFile(fileOut) == IF fileOut = "unreadable" THEN <<>> ELSE file

ReadOps == {"getAll", "getByRegion"}
InitOutcomes == {"ok", "fails"}
ReadOutcomes == {"ok", "unreadable"}

(* RedisStore.getAll, and getByRegion, which filters what getAll returns.
   readOk: the commands of getAllFromRedis succeed; init: the outcome of
   DataStore.init() where the JSON fallback is not set up yet (it creates
   the directory and a missing file); fileOut: the outcome of the read of
   the file.  Each failure is a disturbance of the store. *)
GetAll(op, readOk, init, fileOut) ==
    LET viaRedis == isAvailable /\ readOk
        viaFile == ~viaRedis /\ init = "ok"
        n == (IF isAvailable /\ ~readOk THEN 1 ELSE 0)
             + (IF init = "fails" THEN 1 ELSE 0)
             + (IF fileOut = "unreadable" THEN 1 ELSE 0)
        res == IF viaRedis THEN getAllFromRedis
               ELSE IF viaFile THEN readFile(fileOut)
               ELSE Thrown
    IN /\ isAvailable => redisStatus = "ready"
       /\ ~isAvailable => readOk
       /\ viaRedis \/ jsonFallback => init = "ok"
       /\ ~viaFile => fileOut = "ok"
       /\ storeFaults >= n /\ storeFaults' = storeFaults - n
       /\ jsonFallback' = (jsonFallback \/ viaFile)
       /\ lastRead' = [op |-> op,
                       from |-> IF res.threw THEN "throws"
                                ELSE IF viaRedis THEN "redis" ELSE "file",
                       records |-> res.records,
                       metadata |-> res.metadata,
                       marked |-> isAvailable]
       /\ UNCHANGED <<hash, file, isAvailable, redisStatus, pushes,
                      writeQueue, queueRejected>>
       /\ UNCHANGED <<rev, sources, isRunning, jobQueue, activeCrawlers,
                      crawlers, states, gen, inst, holders, faults, trace,
                      idCalls, totalRecords, passed, closure, loops,
                      stores, getCalls>>

(* the store with one push and any number of reads *)
NextRead ==
    \/ \E names \in Batches, pre \in BOOLEAN : Push(1, names, pre)
    \/ \E ok \in BOOLEAN : PipelineExec(1, ok)
    \/ \E ok \in BOOLEAN : Hgetall(1, ok)
    \/ \E ok \in BOOLEAN : HdelSettled(1, ok)
    \/ \E ok \in BOOLEAN : Publish(1, ok)
    \/ \E out \in FileOutcomes : FileJob(out)
    \/ RedisConnect
    \/ RedisClose
    \/ RedisEnd
    \/ \E ok \in BOOLEAN : CheckHealth(ok)
    \/ \E op \in ReadOps, readOk \in BOOLEAN, init \in InitOutcomes,
          fileOut \in ReadOutcomes : GetAll(op, readOk, init, fileOut)

SpecRead == InitStore /\ [][NextRead]_vars

(* C29: a read is served by Redis whenever Redis is marked available when
   the read is made, and by the JSON file only when Redis is marked
   unavailable. *)
C29_ReadsFollowMark ==
    /\ lastRead.from = "file" => ~lastRead.marked
    /\ lastRead.op # "none" /\ lastRead.marked => lastRead.from = "redis"

(* C30: a read of a category that has no data yet (the hash is empty; the
   file is missing, empty or unreadable), the JSON fallback being set up or
   its set-up succeeding, does not throw, and returns no records with
   metadata that name the category and give totalRecords as 0. *)
C30_EmptyReadReturns ==
    [][\A op \in ReadOps, readOk \in BOOLEAN, fileOut \in ReadOutcomes :
          GetAll(op, readOk, "ok", fileOut)
          => /\ lastRead'.from # "throws"
             /\ \/ lastRead'.from = "redis" /\ hash = {}
                \/ lastRead'.from = "file"
                   /\ (file = <<>> \/ fileOut = "unreadable")
                => /\ lastRead'.records = 0
                   /\ lastRead'.metadata
                        = [category |-> Category, totalRecords |-> 0]]_vars

(* Redis marked unavailable or failing, a read of a category whose file
   cannot be read returned no records *)
C30_Witness ==
    /\ lastRead.from = "file" /\ lastRead.records = 0
    /\ lastRead.metadata.category = Category
    /\ file # <<>>

(* ------------------------------------------------------------------ *)
(* generateRecordId                                                     *)
(* ------------------------------------------------------------------ *)
(* Strings are sequences of characters.  The links are the strings of up to
   MaxHrefLen characters over HrefChars, the empty one standing for a link
   that is empty or not given. *)
HrefChars == {"/", "g", "s"}
Hrefs == UNION {[1..n -> HrefChars] : n \in 0..MaxHrefLen}
IdNames == {<<"G">>, <<"g">>, <<"G", " ", " ", "s">>}
IdRegions == {<<"u", "s">>}

(* href.split('/') *)
RECURSIVE split(_, _)
split(h, part) ==
    IF h = <<>> THEN <<part>>
    ELSE IF Head(h) = "/" THEN <<part>> \o split(Tail(h), <<>>)
    ELSE split(Tail(h), Append(part, Head(h)))

NonEmpty(part) == Len(part) > 0

(* createHash('md5').update(href).digest('hex').substring(0, 8), for the
   links of the model *)
Md5Hex8(h) ==
    CASE h = <<>> -> "d41d8cd9"
      [] h = <<"/">> -> "6666cd76"
      [] h = <<"g">> -> "b2f5ff47"
      [] h = <<"s">> -> "03c7c0ac"
      [] h = <<"/", "/">> -> "7bc0ee63"
      [] h = <<"/", "g">> -> "399ab314"
      [] h = <<"/", "s">> -> "5e636f95"
      [] h = <<"g", "/">> -> "72210879"
      [] h = <<"g", "g">> -> "73c18c59"
      [] h = <<"g", "s">> -> "1d8d5e91"
      [] h = <<"s", "/">> -> "8a29644d"
      [] h = <<"s", "g">> -> "5dae4296"
      [] h = <<"s", "s">> -> "3691308f"
      [] h = <<"/", "/", "/">> -> "884a6325"
      [] h = <<"/", "/", "g">> -> "baa55b5c"
      [] h = <<"/", "/", "s">> -> "84a8cc0e"
      [] h = <<"/", "g", "/">> -> "cf94ef7a"
      [] h = <<"/", "g", "g">> -> "a415a3f4"
      [] h = <<"/", "g", "s">> -> "129e0336"
      [] h = <<"/", "s", "/">> -> "550c9f87"
      [] h = <<"/", "s", "g">> -> "f01ecc42"
      [] h = <<"/", "s", "s">> -> "5ab233b9"
      [] h = <<"g", "/", "/">> -> "d5dceb0f"
      [] h = <<"g", "/", "g">> -> "dbaceec1"
      [] h = <<"g", "/", "s">> -> "940c2c03"
      [] h = <<"g", "g", "/">> -> "159b9885"
      [] h = <<"g", "g", "g">> -> "ba248c98"
      [] h = <<"g", "g", "s">> -> "34569238"
      [] h = <<"g", "s", "/">> -> "05998923"
      [] h = <<"g", "s", "g">> -> "f0508ffd"
      [] h = <<"g", "s", "s">> -> "024743cf"
      [] h = <<"s", "/", "/">> -> "06e89fa5"
      [] h = <<"s", "/", "g">> -> "86cc766f"
      [] h = <<"s", "/", "s">> -> "44441bbf"
      [] h = <<"s", "g", "/">> -> "02a0ab9d"
      [] h = <<"s", "g", "g">> -> "81386693"
      [] h = <<"s", "g", "s">> -> "8c7f6940"
      [] h = <<"s", "s", "/">> -> "eb055bd6"
      [] h = <<"s", "s", "g">> -> "59334e72"
      [] h = <<"s", "s", "s">> -> "9f6e6800"

(* String.prototype.toLowerCase, on the characters of the names *)
toLowerCase(c) == IF c = "G" THEN "g" ELSE c

(* name.replace(/\s+/g, '-').toLowerCase() *)
RECURSIVE NormalizeName(_, _)
NormalizeName(name, inSpace) ==
    IF name = <<>> THEN <<>>
    ELSE IF Head(name) = " "
         THEN (IF inSpace THEN <<>> ELSE <<"-">>)
              \o NormalizeName(Tail(name), TRUE)
         ELSE <<toLowerCase(Head(name))>> \o NormalizeName(Tail(name), FALSE)

(* an identifier that carries the number of calls made before *)
generateRecordIdNumbered(name, region, href) ==
    NormalizeName(name, FALSE) \o <<"-">> \o region
        \o <<"-", ToString(Len(idCalls))>>

generateRecordId(name, region, href) ==
    LET hrefParts == SelectSeq(split(href, <<>>), NonEmpty)
        slug == IF hrefParts = <<>> THEN <<>> ELSE hrefParts[Len(hrefParts)]
    IN IF href # <<>> /\ slug # <<>>
       THEN slug \o <<"-">> \o region \o <<"-", Md5Hex8(href)>>
       ELSE NormalizeName(name, FALSE) \o <<"-">> \o region

(* a call of generateRecordId, with what it returned *)
GenerateRecordId(name, region, href) ==
    /\ Len(idCalls) < MaxCalls
    /\ idCalls' = Append(idCalls,
                         [name |-> name, region |-> region, href |-> href,
                          id |-> generateRecordId(name, region, href)])
    /\ UNCHANGED <<rev, sources, isRunning, jobQueue, activeCrawlers,
                   crawlers, states, gen, inst, holders, faults, trace,
                   lastRead, totalRecords, passed, closure, loops,
                   stores, getCalls>>
    /\ UNCHANGED storeVars

NextIds ==
    \E name \in IdNames, region \in IdRegions, href \in Hrefs :
        GenerateRecordId(name, region, href)

InitIds ==
    /\ InitCommon
    /\ rev = "base" /\ sources = {} /\ faults = 0 /\ trace = FALSE
    /\ InitStoreIdle
    /\ hash = {} /\ file = <<>> /\ isAvailable = TRUE /\ storeFaults = 0
    /\ redisStatus = "ready" /\ jsonFallback = FALSE

SpecIds == InitIds /\ [][NextIds]_vars

(* C23: generateRecordId is deterministic: any two calls with the same
   name, region and link returned the same identifier, whatever calls were
   made before them and in whatever order. *)
C23_Deterministic ==
    \A a, b \in 1..Len(idCalls) :
        /\ idCalls[a].name = idCalls[b].name
        /\ idCalls[a].region = idCalls[b].region
        /\ idCalls[a].href = idCalls[b].href
        => idCalls[a].id = idCalls[b].id

(* the same link was given twice, after a call with another link or not *)
C23_Witness ==
    /\ Len(idCalls) = MaxCalls
    /\ idCalls[1].href = <<"/", "g">> /\ idCalls[1] = idCalls[2]

(* C24: for one name and one region, two calls with different links return
   different identifiers. *)
C24_LinksDistinguish ==
    \A a, b \in 1..Len(idCalls) :
        /\ idCalls[a].name = idCalls[b].name
        /\ idCalls[a].region = idCalls[b].region
        /\ idCalls[a].href # <<>> /\ idCalls[b].href # <<>>
        /\ idCalls[a].href # idCalls[b].href
        => idCalls[a].id # idCalls[b].id

(* ------------------------------------------------------------------ *)
(* properties of the store                                              *)
(* ------------------------------------------------------------------ *)
InFlight == {p \in PushIds : pushes[p].pc \notin {"idle", "resolved", "rejected"}}
Resolved == {p \in PushIds : pushes[p].pc = "resolved"}

(* what getAll serves: the hash while Redis is marked available, the file
   otherwise *)
StoredCount == IF isAvailable THEN Cardinality(hash) ELSE Len(file)

(* C2: once a push has completed and none is in flight, the category holds
   at most MAX_RECORDS records on the backend that serves it. *)
C2_AtMostMaxRecords ==
    Resolved # {} /\ InFlight = {} => StoredCount <= MAX_RECORDS

(* the identifier a pushed item is stored under: its own when it carries
   one, the derived one otherwise *)
ItemId(item) ==
    IF item.pre THEN AssignedId(item.name) ELSE DerivedId(item.name)

Upserted(items, before, after) ==
    /\ Cardinality(DOMAIN after) = Cardinality(DOMAIN before)
    /\ \A item \in Range(items) :
          {k \in DOMAIN after : after[k].id = ItemId(item)}
             = {k \in DOMAIN after :
                   after[k] = Rec(ItemId(item), item.name, item.ts)}
          /\ Cardinality({k \in DOMAIN after : after[k].id = ItemId(item)})
               = 1

(* C3: a push of records whose identifiers are all stored already replaces
   those records and leaves the record count unchanged, on the file backend
   (the job of the push ran and read the file) and on the Redis backend
   (the HSETs of the push were applied), with carried or derived
   identifiers. *)
C3_UpsertInPlace ==
    [][\A p \in PushIds :
          LET items == pushes[p].items
              known(S) == \A item \in Range(items) : ItemId(item) \in S
          IN /\ pushes[p].pc = "queued" /\ pushes'[p].pc = "resolved"
                /\ pushes'[p].out = "ok" /\ known(Ids(Range(file)))
                => Upserted(items, file, file')
             /\ pushes[p].pc = "hset" /\ pushes'[p].pc = "hgetall"
                /\ known(Ids(hash))
                => /\ Cardinality(hash') = Cardinality(hash)
                   /\ RedisRecords(items) \subseteq hash'
                   /\ Cardinality(Ids(hash')) = Cardinality(hash')]_vars

(* C4: two pushes to the category never interleave: at most one push is
   between its write and the end of its eviction. *)
C4_PushesSerialized ==
    Cardinality({p \in PushIds : pushes[p].pc \in {"hgetall", "hdel"}}) <= 1

RedisPhases == {"hset", "hgetall", "hdel", "publish"}

(* C12: a push that fails on Redis is handed to the file backend before it
   returns and marks Redis unavailable; a push made while Redis is marked
   unavailable goes to the file backend; and after a push has failed over,
   Redis is marked available again by the health probe alone, which
   reconnects only a connection that ended. *)
C12_FailoverSticks ==
    [][/\ \A p \in PushIds :
             pushes[p].pc \in RedisPhases /\ pushes'[p].pc # pushes[p].pc
             /\ pushes'[p].pc \notin RedisPhases \cup {"resolved"}
             => /\ isAvailable' = FALSE
                /\ pushes'[p].pc = "queued"
                /\ p \in Range(writeQueue')
       /\ \A p \in PushIds :
             pushes[p].pc = "idle" /\ pushes'[p].pc # "idle" /\ ~isAvailable
             => pushes'[p].pc = "queued"
       /\ (\E p \in PushIds : pushes[p].failedOver)
          /\ ~isAvailable /\ isAvailable'
          => redisStatus = "end"]_vars

(* C13: Redis marked unavailable, and nothing disturbing the store any
   more, the health probe marks it available again, however it came to be
   marked unavailable. *)
C13_ProbeRestores == (~isAvailable /\ storeFaults = 0) ~> isAvailable

(* C14: when a push that went to the file backend returns, the file holds
   its records, and getAll returns them while Redis is marked unavailable
   or cannot be read. *)
C14_FailoverStored ==
    [][\A p \in PushIds :
          pushes[p].pc = "queued" /\ pushes'[p].pc = "resolved"
          => \A readOk \in BOOLEAN :
                ~isAvailable' \/ ~readOk
                => RedisRecords(pushes[p].items) \subseteq getAll(readOk)']_vars

(* a push failed on Redis and returned with its records in a full file *)
C14_Witness ==
    \E p \in PushIds :
        /\ pushes[p].pc = "resolved" /\ pushes[p].failedOver
        /\ ~isAvailable
        /\ Len(file) = MAX_RECORDS
        /\ RedisRecords(pushes[p].items) \subseteq getAll(TRUE)

(* C15: no failure of a backend makes push reject. *)
C15_PushResolves == \A p \in PushIds : pushes[p].pc # "rejected"

(* C16: a publish that fails after the records were stored in Redis leaves
   the push resolved, Redis marked as it was, and nothing queued for the
   file backend. *)
C16_PublishBestEffort ==
    [][\A p \in PushIds :
          pushes[p].pc = "publish" /\ pushes'[p].pc # "publish"
          => /\ pushes'[p].pc = "resolved"
             /\ isAvailable' = isAvailable
             /\ writeQueue' = writeQueue]_vars

(* the instant a record was captured at, as the eviction is to take it: the
   epoch when scrapedAt is missing or unparseable *)
CapturedAt(r) == IF r.ts \in {Missing, Unparseable} THEN 0 ELSE r.ts

(* the records of `before` that are gone in `after` were the oldest, and
   none went unless the category was over MAX_RECORDS *)
EvictedOldest(before, after, n) ==
    /\ n <= MAX_RECORDS
    /\ before \ after # {} => n = MAX_RECORDS
    /\ \A e \in before \ after, k \in after : CapturedAt(e) <= CapturedAt(k)

(* C22 on the file backend: the job of a push that read the file keeps at
   most MAX_RECORDS records and drops none but the oldest, a record with a
   missing or unparseable scrapedAt before any other (a record the push
   replaced, the one findIndex found, is not an eviction). *)
C22_FileEvictsOldest ==
    [][\A p \in PushIds :
          pushes[p].pc = "queued" /\ pushes'[p].pc = "resolved"
          /\ pushes'[p].out = "ok"
          => LET new == RedisRecords(pushes[p].items)
                 found == {DerivedId(item.name) :
                              item \in Range(pushes[p].items)}
                 old == {r \in Range(file) : r.id \notin found}
             IN EvictedOldest(old \cup new, Range(file'), Len(file'))]_vars

(* C22 on the Redis backend: the HDEL of enforceRecordLimit, in a push
   that no other push ran into, leaves MAX_RECORDS records and removes none
   but the oldest. *)
C22_RedisEvictsOldest ==
    [][\A p \in PushIds :
          pushes[p].pc = "hdel" /\ pushes'[p].pc = "publish"
          /\ (\A q \in PushIds \ {p} : pushes[q].pc = "idle")
          => EvictedOldest(hash, hash', Cardinality(hash'))]_vars

(* C22: when a push leaves more than MAX_RECORDS records in a category, the
   records with the oldest capture timestamps are evicted until MAX_RECORDS
   remain, a record whose timestamp is missing or unparseable counting as
   captured at the epoch and going before every record with a valid one. *)
C22_EvictsOldest == C22_FileEvictsOldest /\ C22_RedisEvictsOldest

(* a push to a full hash whose first record has no scrapedAt evicted it *)
C22_RedisWitness ==
    /\ pushes[1].pc = "resolved" /\ ~pushes[1].failedOver
    /\ pushes[2].pc = "idle"
    /\ Cardinality(hash) = MAX_RECORDS
    /\ \A r \in hash : r.ts # Missing /\ r.name # 1

(* ------------------------------------------------------------------ *)
(* properties of the scheduler                                          *)
(* ------------------------------------------------------------------ *)
ActivePhases == {"primary", "backoff", "fallback"}

(* the sources the manager holds a crawler for whose cycle is in an active
   phase *)
ActiveSources ==
    {KeyOf(i) : i \in {j \in crawlers : inst[j].pc \in ActivePhases}}

(* C1: at every moment at most MAX_CONCURRENT_CRAWLERS sources have their
   crawl cycle in an active phase (primary attempt, retry or fallback),
   sources that slept and woke up for their next cycle included (with the
   crawl loop of src/lib/crawler-factory.ts). *)
C1_AtMostMaxActive ==
    rev = "base" => Cardinality(ActiveSources) <= MAX_CONCURRENT_CRAWLERS

(* a startAll() step with more sources than slots starts exactly
   MAX_CONCURRENT_CRAWLERS of the crawlers it created and queues the rest *)
C5_StartAllStartsMax ==
    [][gen' # gen /\ Cardinality(sources) > MAX_CONCURRENT_CRAWLERS
         => /\ Cardinality({i \in crawlers' : inst'[i].pc # "new"})
                 = MAX_CONCURRENT_CRAWLERS
            /\ Len(jobQueue')
                 = Cardinality(sources) - MAX_CONCURRENT_CRAWLERS]_vars

(* a 'sleeping' or 'error' report made while the queue is not empty starts
   exactly one queued source *)
C5_ReportStartsOne ==
    \A i \in Inst, status \in {"sleeping", "error"} :
        Len(jobQueue) > 0
        => LET m == onStatusChange(Mgr, i, status)
           IN /\ Cardinality(m.started) = 1
              /\ Len(m.jobQueue) = Len(jobQueue) - 1

(* C5: with more sources configured than slots, startAll() starts exactly
   MAX_CONCURRENT_CRAWLERS crawlers and leaves the rest queued; afterwards
   each 'sleeping' or 'error' report made while the queue is not empty
   starts exactly one queued source. *)
C5_Admission == []C5_ReportStartsOne /\ C5_StartAllStartsMax

(* the first startAll() of a manager does start MAX_CONCURRENT_CRAWLERS *)
C5_FirstStartAll ==
    [][gen = 0 /\ gen' # gen /\ Cardinality(sources) > MAX_CONCURRENT_CRAWLERS
         => Cardinality({i \in crawlers' : inst'[i].pc # "new"})
              = MAX_CONCURRENT_CRAWLERS]_vars

(* C35: a startAll() that follows a stopAll() starts
   min(MAX_CONCURRENT_CRAWLERS, number of sources) of the crawlers it
   creates, whatever the slot counter was when stopAll() was called. *)
C35_RestartStartsMax ==
    [][gen >= 1 /\ gen' # gen
         => Cardinality({i \in crawlers' : inst'[i].pc # "new"})
              = IF Cardinality(sources) < MAX_CONCURRENT_CRAWLERS
                THEN Cardinality(sources) ELSE MAX_CONCURRENT_CRAWLERS]_vars

(* C6: every admission is matched by exactly one slot release, so the
   active-slot counter always equals the number of admitted crawlers that
   have not reported 'sleeping' or 'error' since they were admitted. *)
C6_CounterMatchesHolders == activeCrawlers = Cardinality(holders)

(* C11: after stop() has been called on a crawler, no step of it starts a
   primary attempt (a retry) or the fallback, whether the stop came during a
   backoff sleep, during an extraction attempt or during the poll sleep. *)
C11_NoAttemptAfterStop ==
    [][\A i \in Inst :
          inst[i].aborted /\ inst'[i].aborted /\ inst'[i].pc # inst[i].pc
          => inst'[i].pc \notin {"primary", "fallback"}]_vars

(* a start() that rejects releases the slot and starts queued sources as an
   'error' report of the same crawler does *)
C20_RejectReleases ==
    \A i \in Inst :
        LET a == startFailed(Mgr, i)
            b == onStatusChange(Mgr, i, "error")
        IN /\ a.activeCrawlers = b.activeCrawlers
           /\ a.jobQueue = b.jobQueue
           /\ a.started = b.started

(* the queue startAll() filled empties: every source in it is started, or
   stopAll() empties it first (nothing but startAll() adds to the queue, and
   startAll() runs when the manager is stopped) *)
C20_QueueDrains == (jobQueue # <<>>) ~> (jobQueue = <<>>)

(* C20: no slot is held for ever: a start() that rejects releases its slot
   like an 'error' report, and, every started cycle reporting in the end,
   every source queued by startAll() is eventually started unless stopAll()
   is called first. *)
C20_NoHeldSlot == []C20_RejectReleases /\ C20_QueueDrains

(* after a restart of the manager every source has been started *)
C20_Witness ==
    /\ gen = MaxStarts /\ isRunning /\ jobQueue = <<>>
    /\ \A k \in Keys : inst[InstOf(gen, k)].pc \notin {"none", "new"}

(* C21: stopAll() empties the pending queue and stops every crawler the
   manager holds, the started ones and the ones still queued (none of them
   is running afterwards, the started ones have their sleeps aborted, the
   queued ones are never started); a stopAll() on a manager that is stopped
   already changes nothing. *)
C21_StopAllStopsAll ==
    [][/\ stopAll
          => /\ jobQueue' = <<>> /\ ~isRunning' /\ crawlers' = {}
             /\ \A j \in crawlers :
                   /\ ~inst'[j].isRunning
                   /\ inst[j].pc # "new" => inst'[j].aborted
                   /\ inst[j].pc = "new" => inst'[j].pc = "new"
       /\ stopAll /\ crawlers = {} => UNCHANGED vars
       /\ \A j \in Inst :
             inst[j].pc = "new" /\ j \notin crawlers => inst'[j].pc = "new"]_vars

(* stopAll() was called with one crawler still queued and the others started *)
C21_Witness ==
    /\ ~isRunning /\ crawlers = {} /\ jobQueue = <<>> /\ gen = 1
    /\ \E j \in Inst : inst[j].pc = "new"
    /\ \E j \in Inst : inst[j].aborted /\ ~inst[j].isRunning

(* C25: a crawler in the no-data cooldown holds no slot: it has reported
   'sleeping' or 'error' since it was admitted, so that the slot is free for
   a queued source while the cooldown lasts. *)
C25_CooldownFreesSlot ==
    \A i \in Inst : inst[i].pc = "cooldown" => i \notin holders

SlotRange == 0..MAX_CONCURRENT_CRAWLERS

(* C39: the slot counter is never negative and never above
   MAX_CONCURRENT_CRAWLERS, and no status report of any crawler, expected,
   repeated or late, and no rejected start() takes it out of that range. *)
C39_CounterInRange ==
    /\ activeCrawlers \in SlotRange
    /\ \A i \in Inst :
          /\ startFailed(Mgr, i).activeCrawlers \in SlotRange
          /\ \A status \in {"scraping", "sleeping", "error"} :
                onStatusChange(Mgr, i, status).activeCrawlers \in SlotRange

(* repeated reports have emptied the counter while a crawler of the manager
   is in an extraction attempt *)
C39_Witness ==
    /\ isRunning /\ activeCrawlers = 0
    /\ \E i \in crawlers : inst[i].pc \in ActivePhases

(* ------------------------------------------------------------------ *)
(* properties of one crawl cycle (inst[i].log, the events of the cycle)  *)
(* ------------------------------------------------------------------ *)
IsBackoff(e) == e.e = "backoff"
IsSleep(e) == e.e \in {"cooldown", "poll"}
Delays(l) == [k \in 1..Len(l) |-> l[k].d]
Backoffs(l) == Delays(SelectSeq(l, IsBackoff))
Sleeps(l) == Delays(SelectSeq(l, IsSleep))
Has(l, e) == \E p \in 1..Len(l) : l[p].e = e
At(l, e) == CHOOSE p \in 1..Len(l) : l[p].e = e
Before(l, e) == SubSeq(l, 1, At(l, e) - 1)
After(l, e) == SubSeq(l, At(l, e) + 1, Len(l))

(* C7: with MAX_RETRIES = 3, in a cycle whose primary attempts all fail and
   whose fallback returns records, exactly 3 backoff sleeps occur, of
   RETRY_DELAY_BASE, 2 * RETRY_DELAY_BASE and 4 * RETRY_DELAY_BASE in that
   order, all before the fallback is invoked, and the cycle ends by
   reporting 'sleeping' (the revisions with retries: "base", "counted"). *)
C7_BackoffThenFallback ==
    \A i \in Inst :
        LET l == inst[i].log
        IN rev \in {"base", "counted"} /\ Has(l, "fallback")
           => /\ Backoffs(Before(l, "fallback"))
                   = <<RETRY_DELAY_BASE, 2 * RETRY_DELAY_BASE,
                       4 * RETRY_DELAY_BASE>>
              /\ Backoffs(After(l, "fallback")) = <<>>
              /\ Has(l, "records")
                   => /\ ~Has(l, "error")
                      /\ Has(After(l, "records"), "sleeping")
                      /\ inst[i].pc \in {"poll", "pollAborted", "exited"}

(* a cycle that fell back after its retries and got records has ended *)
C7_Witness ==
    \E i \in Inst :
        /\ rev \in {"base", "counted"}
        /\ Len(Backoffs(inst[i].log)) = MAX_RETRIES
        /\ Has(inst[i].log, "records")
        /\ Has(inst[i].log, "sleeping")

(* C8: a primary attempt that finishes without raising but persists zero
   records is handled as a failure: the next event of the cycle is a retry
   backoff or the fallback, never the report of a successful cycle (the
   revision of src/lib/crawler-factory.ts). *)
C8_ZeroIsFailure ==
    \A i \in Inst :
        LET l == inst[i].log
        IN rev = "base"
           => \A p \in 1..Len(l) :
                  l[p].e = "primaryZero" /\ p < Len(l)
                  => l[p + 1].e \in {"backoff", "fallback"}

(* C9: when the primary and the fallback both return zero records in one
   cycle, the wait before the next cycle is NO_DATA_BACKOFF_MS alone: the
   poll interval is neither used instead of it nor added to it (the
   revision with NO_DATA_BACKOFF_MS). *)
C9_NoDataWait ==
    \A i \in Inst :
        LET l == inst[i].log
        IN rev = "counted" /\ Has(l, "primaryZero") /\ Has(l, "zero")
           => Sleeps(After(l, "zero")) = <<NO_DATA_BACKOFF_MS>>

(* C10: after stop(), no sleep of the crawler waits for its timer: a sleep
   in progress is ended at once and so is one reached after the stop. *)
C10_NoSleepAfterStop ==
    \A i \in Inst :
        inst[i].aborted => inst[i].pc \notin {"backoff", "cooldown", "poll"}

(* C26: a cycle in which the primary and the fallback both failed, the
   fallback by returning no records, by throwing or by rejecting, does not
   end the loop, and its next sleep is the NO_DATA_BACKOFF_MS cooldown (the
   revision with NO_DATA_BACKOFF_MS). *)
C26_BothFailCooldown ==
    \A i \in Inst :
        LET l == inst[i].log
        IN \A out \in {"zero", "throws", "rejects"} :
              rev = "counted" /\ Has(l, "primary") /\ Has(l, out)
              => /\ Sleeps(After(l, out)) # <<>>
                 /\ Head(Sleeps(After(l, out))) = NO_DATA_BACKOFF_MS
                 /\ inst[i].pc = "exited" => ~inst[i].isRunning

(* the places of the cycle's log where the fallback was invoked *)
Fallbacks(l) == {p \in 1..Len(l) : l[p].e = "fallback"}

(* C27: in a cycle that began with a primary attempt the fallback is invoked
   at most once, and only after MAX_RETRIES retries of the primary, each
   after its backoff sleep: never while retries remain. *)
C27_FallbackAfterRetries ==
    \A i \in Inst :
        LET l == inst[i].log
        IN Has(l, "primary") /\ Has(l, "fallback")
           => /\ Cardinality(Fallbacks(l)) = 1
              /\ Len(Backoffs(Before(l, "fallback"))) = MAX_RETRIES

(* C17: once the preferred method of a crawler is the fallback backend, it
   stays so and no later step of the crawler starts a primary attempt,
   whatever the fallback returns (the revision with preferredMethod). *)
C17_PreferenceSticks ==
    [][\A i \in Inst :
          rev = "adaptive" /\ inst[i].preferredMethod = "browserless"
          => /\ inst'[i].preferredMethod = "browserless"
             /\ inst'[i].pc # "primary"]_vars

(* a cycle of a switched crawler invoked the fallback alone, and it failed *)
C17_Witness ==
    \E i \in Inst :
        /\ rev = "adaptive" /\ inst[i].preferredMethod = "browserless"
        /\ inst[i].pc = "poll"
        /\ inst[i].log # <<>> /\ inst[i].log[1].e = "fallback"
        /\ Has(inst[i].log, "error")
        /\ ~Has(inst[i].log, "primary")

(* C28: the failure counter of a crawler counts the cycles in which its
   primary attempt failed: it rises by one when, and only when, a primary
   attempt fails; what the fallback returns leaves it alone; it goes back to
   zero only when a primary attempt stored records; and the preferred method
   changes to the fallback on the step that brings the counter to
   FAILURE_THRESHOLD, and on no other (the revision with preferredMethod). *)
C28_CounterCountsCycles ==
    [][\A i \in Inst :
          LET c == inst[i].consecutivePlaywrightFailures
              d == inst'[i].consecutivePlaywrightFailures
              failed == inst[i].pc = "primary" /\ inst'[i].pc = "fallback"
              stored == /\ inst[i].pc = "primary" /\ inst'[i].pc = "poll"
                        /\ inst'[i].storedCountThisRun > 0
              switched == /\ inst[i].preferredMethod = "playwright"
                          /\ inst'[i].preferredMethod = "browserless"
          IN rev = "adaptive" /\ inst[i].pc # "none"
             => /\ d \in {c, c + 1, 0}
                /\ failed <=> d = c + 1
                /\ d = 0 /\ c > 0 => stored
                /\ stored => d = 0
                /\ inst[i].pc = "fallback" => d = c
                /\ switched <=> d = FAILURE_THRESHOLD /\ d # c]_vars

(* a crawler switched after two cycles whose primary attempt failed, the
   fallback having returned records in both *)
C28_Witness ==
    \E i \in Inst :
        /\ rev = "adaptive"
        /\ inst[i].consecutivePlaywrightFailures = FAILURE_THRESHOLD
        /\ inst[i].preferredMethod = "browserless"
        /\ Has(inst[i].log, "primary") /\ Has(inst[i].log, "records")
        /\ inst[i].pc = "poll"

InCycle == {"primary", "backoff", "fallback", "cooldown"}

(* the crawlers the manager creates for the first source *)
LoopInst == {InstOf(g, 1) : g \in 1..MaxStarts}

(* C18: a started crawler that is not stopped ends every cycle it is in, by
   reaching the poll sleep, and leaves every poll sleep for another cycle,
   every timer firing and every extraction call returning or raising. *)
C18_LoopGoesOn ==
    \A i \in LoopInst :
        /\ (inst[i].pc \in InCycle /\ ~inst[i].aborted)
              ~> (inst[i].pc = "poll" \/ inst[i].aborted)
        /\ (inst[i].pc = "poll" /\ ~inst[i].aborted)
              ~> (inst[i].pc \in {"primary", "fallback"} \/ inst[i].aborted)

(* a crawler whose last cycle failed in the primary is in its next cycle *)
C18_Witness ==
    \E i \in Inst :
        /\ rev = "adaptive" /\ ~inst[i].aborted
        /\ inst[i].consecutivePlaywrightFailures = 1
        /\ inst[i].pc = "primary"

(* C19: an error that ends a cycle (the fallback threw, rejected, or
   returned nothing where that is an error) is reported as 'error' and the
   loop goes on to its poll sleep: start() does not end on it. *)
C19_ErrorsAbsorbed ==
    \A i \in Inst :
        LET l == inst[i].log
        IN \A out \in {"throws", "rejects", "zero"} :
              Has(l, out) /\ ~(out = "zero" /\ rev = "counted")
              => /\ Has(After(l, out), "error")
                 /\ Has(After(l, "error"), "poll")
                 /\ inst[i].pc \in {"poll", "pollAborted"}
                    \/ (inst[i].pc = "exited" /\ ~inst[i].isRunning)

(* the fallback rejected, the cycle reported 'error' and sleeps *)
C19_Witness ==
    \E i \in Inst :
        /\ Has(inst[i].log, "rejects") /\ Has(inst[i].log, "error")
        /\ inst[i].pc = "poll" /\ inst[i].isRunning

(* C36: a push to the file-backed store that fails affects only that push:
   a push that waits on the write queue ends rejected only by a failure of
   its own job, so the job of a push queued behind a failed one still
   runs. *)
C36_FailureIsLocal ==
    [][\A p \in PushIds :
          pushes[p].pc = "queued" /\ pushes'[p].pc = "rejected"
          => pushes'[p].out \in {"readFails", "writeFails"}]_vars

(* the pushes made so far, in the order of the calls *)
Pushed == {p \in PushIds : pushes[p].pc # "idle"}

(* what the file backend holds after the first n pushes, from empty *)
RECURSIVE FileAfter(_)
FileAfter(n) ==
    IF n = 0 THEN <<>> ELSE FilePush(FileAfter(n - 1), pushes[n].items)

(* what the Redis backend holds after the first n pushes, from empty, each
   push run to its end before the next *)
RECURSIVE RedisAfter(_)
RedisAfter(n) ==
    IF n = 0 THEN {}
    ELSE LET written == Hset(RedisAfter(n - 1), RedisRecords(pushes[n].items))
         IN Hdel(written, ToRemove(written))

(* C32: the two backends implement the same upsert: given the pushes made
   so far, one after the other, the file backend and the Redis backend hold
   the same records under the same identifiers, one record for each
   identifier. *)
C32_SameUpsert ==
    LET n == Cardinality(Pushed)
        f == FileAfter(n)
    IN /\ Range(f) = RedisAfter(n)
       /\ Cardinality(Ids(Range(f))) = Len(f)

(* the records are in the order of their names *)
OrderedByName(records) ==
    \A s \in {records} :
        \A k \in 1..(Len(s) - 1) : s[k].name <= s[k + 1].name

(* C34: after a push, getAll returns the records ordered by name, whatever
   the order in which they were pushed and their timestamps, whether the
   read is served by Redis or by the JSON file. *)
C34_ReadOrderedByName ==
    [][\A readOk \in BOOLEAN, fileOut \in ReadOutcomes :
          /\ GetAll("getAll", readOk, "ok", fileOut)
          /\ \E p \in PushIds : pushes[p].pc = "resolved"
          => OrderedByName(IF lastRead'.from = "redis"
                           THEN recordsFromRedis(hash)
                           ELSE recordsFromFile(fileOut))]_vars

(* getAll was served by the file after a push had added, to the records
   stored before, a record with a later name and a later timestamp, which
   the sort by recency puts first *)
C34_Witness ==
    /\ lastRead.op = "getAll" /\ lastRead.from = "file"
    /\ pushes[1].pc = "resolved" /\ pushes[1].out = "ok"
    /\ Len(file) = MAX_RECORDS
    /\ file[Len(file)].ts > file[1].ts
    /\ file[Len(file)].name > file[1].name

(* C37: for one source at most one extraction run is in flight: while a
   primary run that the timeout abandoned has not ended (it can still
   store records, change the stored count and report), the source runs no
   retry of the primary and no fallback. *)
C37_OneRunInFlight ==
    \A i \in Inst :
        inst[i].abandoned => inst[i].pc \notin {"primary", "fallback"}

RECURSIVE SumOf(_)
SumOf(counts) ==
    IF counts = <<>> THEN 0 ELSE Head(counts) + SumOf(Tail(counts))

(* C33: for each source, totalRecords equals the sum of the counts passed
   to the source's onDataStored callback since startAll() and never
   decreases between two calls of startAll(); a status report leaves
   totalRecords as it is, and a count report leaves the status as it
   is. *)
C33_TotalsAggregate ==
    [][/\ \A k \in DOMAIN totalRecords' :
             totalRecords'[k] = SumOf(passed'[k])
       /\ gen' = gen
          => /\ \A k \in DOMAIN totalRecords :
                   /\ totalRecords'[k] >= totalRecords[k]
                   /\ states'[k] # states[k]
                      => totalRecords'[k] = totalRecords[k]
             /\ totalRecords' # totalRecords => states' = states
       /\ \A i \in Inst, count \in 1..MaxCount :
             onDataStored(Mgr, i, count).states = states
       /\ \A i \in Inst, status \in {"scraping", "sleeping", "error"} :
             onStatusChange(Mgr, i, status).totalRecords = totalRecords]_vars

(* after a second startAll(), two extractions of a source reported their
   counts and the source changed status *)
C33_Witness ==
    /\ gen = 2
    /\ \E k \in DOMAIN passed :
          /\ Len(passed[k]) = 2 /\ totalRecords[k] >= 2
          /\ states[k] # "idle"

(* C38: for one crawler and any sequence of start() and stop() calls:
   start() while running changes nothing; at most one loop that no stop()
   was meant for is executing; and a loop that a stop() was meant for
   begins no further extraction attempt, even when start() is called
   again before the loop has observed the stop. *)
C38_OneLoop ==
    [][/\ StartCall /\ closure.isRunning => UNCHANGED <<closure, loops>>
       /\ Cardinality({l \in DOMAIN loops' :
                          ~loops'[l].stopped /\ loops'[l].pc # "exited"}) <= 1
       /\ \A l \in DOMAIN loops :
             loops[l].stopped => loops'[l].attempts = loops[l].attempts]_vars

(* the store instances constructed so far *)
Constructed == {getCalls[c].store : c \in GetCalls} \ {NoStore}

(* C31: for a category at most one store instance is ever constructed, and
   every call for the category returns that instance, also when calls are
   made before the init() of the first has finished. *)
C31_OneStorePerCategory ==
    /\ Cardinality(Constructed) <= 1
    /\ \A c \in GetCalls :
          getCalls[c].pc = "returned" => getCalls[c].result \in Constructed
    /\ \A c, d \in GetCalls :
          getCalls[c].pc = "returned" /\ getCalls[d].pc = "returned"
          => getCalls[c].result = getCalls[d].result

====
